---- MODULE Spec2Model ----
(***************************************************************************)
(* Loan decision engine of LoanAI: the orchestrator                        *)
(* (LoanApplicationProcessor.process), the communication hub               *)
(* (AgentCommunicationHub), the risk scoring model (RiskScoringModel) and  *)
(* the loan officer decision logic (LoanOfficerDecisionEngine), and the    *)
(* route handler POST /api/loan-application that stores a submission and   *)
(* hands it to the engine, the application form (LoanForm) that sends the  *)
(* submission and polls for the decision, and the route handler            *)
(* GET /api/health.                                                        *)
(*                                                                         *)
(* Number representation.  The code computes with Python floats.  The      *)
(* model keeps every such quantity as an exact integer in a fixed unit:    *)
(*   risk scores          in hundredths of a point  (20.0  -> 2000)        *)
(*   money amounts        in cents                  ($9,000 -> 900000)     *)
(*   interest rates       in tenths of a percent    (3.5   -> 35)          *)
(*   confidence scores    in hundredths             (0.85  -> 85)          *)
(*   consensus strength   as a fraction <<num, den>>                       *)
(* The one place where binary floating point differs from the exact value  *)
(* in a way a comparison can see is modelled by DoubleSumBelow.            *)
(***************************************************************************)
EXTENDS Integers, Sequences, FiniteSets, TLC

\* ------------------------------------------------------------------------
\* Input domains of the model
\* ------------------------------------------------------------------------

\* The keys of the task dictionary of process(), in insertion order.
AgentKeys == <<"bank_analysis", "salary_analysis", "verification">>

AgentKeySet == {AgentKeys[i] : i \in 1..Len(AgentKeys)}

\* Risk scores an analyzer reports (integers in 0..100).
RiskValues == {5, 10, 15, 20, 22, 40, 50, 72, 100}

\* loan_request dictionaries: every branch of the loan-risk calculation.
LoanRequests ==
    { [loan_amount |-> 10000,  loan_duration |-> 24, loan_purpose |-> "personal"],
      [loan_amount |-> 10000,  loan_duration |-> 24, loan_purpose |-> "business"],
      [loan_amount |-> 30000,  loan_duration |-> 72, loan_purpose |-> "personal"],
      [loan_amount |-> 60000,  loan_duration |-> 48, loan_purpose |-> "education"],
      [loan_amount |-> 120000, loan_duration |-> 24, loan_purpose |-> "personal"] }

\* red_flags lists of one analyzer.
LateFlag  == [type |-> "late_payment", severity |-> "medium"]

FraudFlag == [type |-> "fraud", severity |-> "high"]

RedFlagLists == { <<>>, <<LateFlag>>, <<LateFlag, LateFlag>>, <<LateFlag, FraudFlag>> }

\* consensus_strength values handed to make_decision: 1/3, 1/2, 3/5, 1.
ConsensusStrengths == { <<1, 3>>, <<1, 2>>, <<3, 5>>, <<1, 1>> }

\* ------------------------------------------------------------------------
\* RiskScoringModel
\* ------------------------------------------------------------------------

\* weights, in hundredths
WeightBank == 35

WeightSalary == 30

WeightVerification == 20

WeightLoan == 15

\* _calculate_loan_risk: risk from amount, duration and purpose
calculate_loan_risk(loan_details) ==
    LET amount == loan_details.loan_amount
        duration == loan_details.loan_duration
        purpose == loan_details.loan_purpose
        amount_risk == IF amount > 100000 THEN 15
                       ELSE IF amount > 50000 THEN 10
                       ELSE IF amount > 25000 THEN 5
                       ELSE 0
        duration_risk == IF duration > 60 THEN 10
                         ELSE IF duration > 36 THEN 5
                         ELSE 0
        purpose_risk == IF purpose \in {"business", "others"} THEN 10 ELSE 0
        risk == amount_risk + duration_risk + purpose_risk
    IN  IF risk < 100 THEN risk ELSE 100

\* Variant of ExactTotalRisk: the four terms weigh the same.
ExactTotalRisk_EqualWeights(bank_risk, salary_risk, verification_risk, loan_risk) ==
    25 * (bank_risk + salary_risk + verification_risk + loan_risk)

\* The exact value, in hundredths, of
\*   bank*0.35 + salary*0.30 + verification*0.20 + loan_risk*0.15
ExactTotalRisk(bank_risk, salary_risk, verification_risk, loan_risk) ==
    bank_risk * WeightBank + salary_risk * WeightSalary
        + verification_risk * WeightVerification + loan_risk * WeightLoan

\* The inputs <<bank, salary, verification, loan_risk>> of the model's grid
\* (RiskValues and the risks of AnalyzerReturns, with the loan risks of
\* LoanRequests and Applications) on which the IEEE-754 double
\* evaluation of the sum, in the order the code writes it, lands just below
\* the exact decimal value while the exact value is one of the thresholds
\* 20, 40, 60, 75: 40*0.35 + 72*0.30 + 22*0.20 + 0*0.15 evaluates to
\* 39.99999999999999.  On every other input of the grid the double compares
\* with the thresholds exactly as the exact value does, and round(total, 2)
\* is the exact value on all of them.
DoubleSumBelow == { <<40, 72, 22, 0>> }

\* `total_risk < threshold` on the unrounded double total_risk
TotalRiskLess(bank_risk, salary_risk, verification_risk, loan_risk, threshold) ==
    LET exact == ExactTotalRisk(bank_risk, salary_risk, verification_risk, loan_risk)
    IN  \/ exact < threshold * 100
        \/ /\ exact = threshold * 100
           /\ <<bank_risk, salary_risk, verification_risk, loan_risk>> \in DoubleSumBelow

\* calculate_aggregate_risk: total_risk_score is round(total_risk, 2), in
\* hundredths; category and recommendation come from the unrounded total.
calculate_aggregate_risk(bank_risk, salary_risk, verification_risk, loan_details) ==
    LET loan_risk == calculate_loan_risk(loan_details)
        Less(t) == TotalRiskLess(bank_risk, salary_risk, verification_risk, loan_risk, t)
        band == IF Less(20) THEN <<"LOW_RISK", "APPROVE">>
                ELSE IF Less(40) THEN <<"MODERATE_LOW_RISK", "APPROVE">>
                ELSE IF Less(60) THEN <<"MODERATE_RISK", "MANUAL_REVIEW">>
                ELSE IF Less(75) THEN <<"MODERATE_HIGH_RISK", "REJECT">>
                ELSE <<"HIGH_RISK", "REJECT">>
    IN  [ total_risk_score |->
              ExactTotalRisk(bank_risk, salary_risk, verification_risk, loan_risk),
          risk_category |-> band[1],
          recommendation |-> band[2],
          loan_characteristics |-> loan_risk ]

\* ------------------------------------------------------------------------
\* LoanOfficerDecisionEngine
\* ------------------------------------------------------------------------

\* Variant of StrengthBelowGate: the gate at 0.5 instead of 0.6.
StrengthBelowGate_Half(strength) == strength[1] * 10 < 5 * strength[2]

\* consensus['consensus_strength'] < 0.6
StrengthBelowGate(strength) == strength[1] * 10 < 6 * strength[2]

\* getattr(result, 'red_flags', [])
red_flags_of(result) ==
    IF "red_flags" \in DOMAIN result THEN result.red_flags ELSE <<>>

\* sum(len(getattr(result, 'red_flags', [])) for result in results.values())
RECURSIVE SumFlags(_, _)
SumFlags(results, i) ==
    IF i > Len(AgentKeys) THEN 0
    ELSE Len(red_flags_of(results[AgentKeys[i]])) + SumFlags(results, i + 1)

total_red_flags(results) == SumFlags(results, 1)

\* For some agent_result that has the attribute red_flags,
\* [f for f in agent_result.red_flags if f.get('type') == 'fraud'] is not empty
HasFraudFlag(results) ==
    \E k \in AgentKeySet :
        /\ "red_flags" \in DOMAIN results[k]
        /\ \E i \in 1..Len(results[k].red_flags) :
               results[k].red_flags[i].type = "fraud"

\* Variant of check_override_conditions: the fraud check is missing.
check_override_conditions_NoFraud(results, consensus) ==
    IF total_red_flags(results) >= 3
    THEN << [ decision |-> "REJECT",
              risk_score |-> 8500,
              explanation |-> "Multiple red flags detected" ] >>
    ELSE <<>>

\* Variant of check_override_conditions: more than 3 red flags are needed.
check_override_conditions_MoreThan3(results, consensus) ==
    IF HasFraudFlag(results)
    THEN << [ decision |-> "REJECT",
              risk_score |-> 10000,
              explanation |-> "Document fraud detected",
              conditions |-> <<"FRAUD_DETECTED">> ] >>
    ELSE IF total_red_flags(results) > 3
    THEN << [ decision |-> "REJECT",
              risk_score |-> 8500,
              explanation |-> "Multiple red flags detected" ] >>
    ELSE <<>>

\* _check_override_conditions.  An Optional[DecisionResult] is a sequence of
\* at most one element (<<>> is Python None); a DecisionResult built by an
\* override has only the fields that call passes.
check_override_conditions(results, consensus) ==
    IF HasFraudFlag(results)
    THEN << [ decision |-> "REJECT",
              risk_score |-> 10000,
              explanation |-> "Document fraud detected",
              conditions |-> <<"FRAUD_DETECTED">> ] >>
    ELSE IF total_red_flags(results) >= 3
    THEN << [ decision |-> "REJECT",
              risk_score |-> 8500,
              explanation |-> "Multiple red flags detected" ] >>
    ELSE <<>>

\* Variant of calculate_loan_terms: the last tier (amount 0, rate 0) is
\* missing, so a risk of 60 or more gets the terms of the third tier.
calculate_loan_terms_NoZeroTier(application, risk_score) ==
    LET requested_amount == application.loan_request.loan_amount
        tier == IF risk_score < 2000 THEN <<requested_amount * 100, 35>>
                ELSE IF risk_score < 4000 THEN <<requested_amount * 90, 55>>
                ELSE <<requested_amount * 70, 75>>
    IN  [ approved_amount |-> tier[1],
          interest_rate |-> tier[2],
          duration |-> application.loan_request.loan_duration,
          conditions |-> <<>> ]

\* Variant of calculate_loan_terms: the second tier keeps the full amount.
calculate_loan_terms_FullAmount(application, risk_score) ==
    LET requested_amount == application.loan_request.loan_amount
        tier == IF risk_score < 2000 THEN <<requested_amount * 100, 35>>
                ELSE IF risk_score < 4000 THEN <<requested_amount * 100, 55>>
                ELSE IF risk_score < 6000 THEN <<requested_amount * 70, 75>>
                ELSE <<0, 0>>
    IN  [ approved_amount |-> tier[1],
          interest_rate |-> tier[2],
          duration |-> application.loan_request.loan_duration,
          conditions |-> <<>> ]

\* _calculate_loan_terms: amounts in cents, rate in tenths of a percent
calculate_loan_terms(application, risk_score) ==
    LET requested_amount == application.loan_request.loan_amount
        requested_duration == application.loan_request.loan_duration
        tier == IF risk_score < 2000 THEN <<requested_amount * 100, 35>>
                ELSE IF risk_score < 4000 THEN <<requested_amount * 90, 55>>
                ELSE IF risk_score < 6000 THEN <<requested_amount * 70, 75>>
                ELSE <<0, 0>>
        co_signer == IF risk_score > 3000 THEN <<"Requires co-signer">> ELSE <<>>
        collateral == IF risk_score > 4000
                      THEN <<"Additional collateral required">> ELSE <<>>
    IN  [ approved_amount |-> tier[1],
          interest_rate |-> tier[2],
          duration |-> requested_duration,
          conditions |-> co_signer \o collateral ]

\* Variant of make_decision: the consensus gate is applied before the
\* override conditions.
make_decision_GateFirst(application, sub_agent_results, consensus) ==
    LET risk_analysis ==
            calculate_aggregate_risk(sub_agent_results["bank_analysis"].risk_score,
                                     sub_agent_results["salary_analysis"].risk_score,
                                     sub_agent_results["verification"].risk_score,
                                     application.loan_request)
        override_decision == check_override_conditions(sub_agent_results, consensus)
        loan_terms == calculate_loan_terms(application, risk_analysis.total_risk_score)
        normal(decision) ==
             [ decision |-> decision,
               risk_score |-> risk_analysis.total_risk_score,
               risk_category |-> risk_analysis.risk_category,
               confidence_score |-> consensus.consensus_strength,
               approved_amount |-> loan_terms.approved_amount,
               interest_rate |-> loan_terms.interest_rate,
               loan_duration |-> loan_terms.duration,
               conditions |-> loan_terms.conditions,
               explanation |-> "generated" ]
    IN  IF StrengthBelowGate(consensus.consensus_strength)
        THEN normal("MANUAL_REVIEW")
        ELSE IF override_decision # <<>>
        THEN override_decision[1]
        ELSE normal(risk_analysis.recommendation)

\* make_decision, for sub_agent_results that are three analysis results
make_decision(application, sub_agent_results, consensus) ==
    LET risk_analysis ==
            calculate_aggregate_risk(sub_agent_results["bank_analysis"].risk_score,
                                     sub_agent_results["salary_analysis"].risk_score,
                                     sub_agent_results["verification"].risk_score,
                                     application.loan_request)
        override_decision == check_override_conditions(sub_agent_results, consensus)
        base_decision == IF StrengthBelowGate(consensus.consensus_strength)
                         THEN "MANUAL_REVIEW"
                         ELSE risk_analysis.recommendation
        loan_terms == calculate_loan_terms(application, risk_analysis.total_risk_score)
    IN  IF override_decision # <<>>
        THEN override_decision[1]
        ELSE [ decision |-> base_decision,
               risk_score |-> risk_analysis.total_risk_score,
               risk_category |-> risk_analysis.risk_category,
               confidence_score |-> consensus.consensus_strength,
               approved_amount |-> loan_terms.approved_amount,
               interest_rate |-> loan_terms.interest_rate,
               loan_duration |-> loan_terms.duration,
               conditions |-> loan_terms.conditions,
               explanation |-> "generated" ]

\* ------------------------------------------------------------------------
\* AgentCommunicationHub
\* ------------------------------------------------------------------------

\* A task that raised: asyncio.gather(return_exceptions=True) puts the
\* exception object in the result list.  It has none of the attributes of an
\* analysis result.
ExceptionObject == [exception |-> "Exception"]

\* Reading .risk_score, .recommendation or .confidence_score of r raises
\* AttributeError.
LacksResultAttributes(r) == "risk_score" \notin DOMAIN r

\* sum(confidence_scores.values())
RECURSIVE SumConfidence(_, _)
SumConfidence(results, i) ==
    IF i > Len(AgentKeys) THEN 0
    ELSE results[AgentKeys[i]].confidence_score + SumConfidence(results, i + 1)

\* sum(risk * confidence_scores[agent] for agent, risk in risk_scores.items())
RECURSIVE SumRiskTimesConfidence(_, _)
SumRiskTimesConfidence(results, i) ==
    IF i > Len(AgentKeys) THEN 0
    ELSE results[AgentKeys[i]].risk_score * results[AgentKeys[i]].confidence_score
             + SumRiskTimesConfidence(results, i + 1)

\* rec_counts[rec]
rec_count(results, rec) ==
    Cardinality({k \in AgentKeySet : results[k].recommendation = rec})

\* max(rec_counts, key=rec_counts.get): the first key, in the insertion order
\* of the dictionary, whose count is the largest.  Keys are inserted in the
\* order their recommendation first occurs in the results.
RECURSIVE FirstMax(_, _, _)
FirstMax(results, i, best) ==
    IF i > Len(AgentKeys) THEN best
    ELSE LET rec == results[AgentKeys[i]].recommendation
         IN  IF rec_count(results, rec) > rec_count(results, best)
             THEN FirstMax(results, i + 1, rec)
             ELSE FirstMax(results, i + 1, best)

consensus_recommendation(results) ==
    FirstMax(results, 2, results[AgentKeys[1]].recommendation)

\* build_consensus, for results that are three analysis results with a
\* non-zero confidence sum.  weighted_risk_score is the fraction
\* <<sum of risk x confidence, sum of confidence>>.
build_consensus(results) ==
    LET rec == consensus_recommendation(results)
    IN  [ consensus_recommendation |-> rec,
          consensus_strength |-> <<rec_count(results, rec), Len(AgentKeys)>>,
          weighted_risk_score |->
              <<SumRiskTimesConfidence(results, 1), SumConfidence(results, 1)>> ]

\* facilitate_discussion(..., participants=[bank, salary, verification], ...)
participants == <<"BankStatementAgent", "SalaryAgent", "VerificationAgent">>

\* max_rounds=3 in the call of process()
max_rounds == 3

\* What agent.run(prompt) answers in a discussion: a message is the sequence
\* of its words.
DiscussionTexts == { <<"I", "approve">>, <<"Reject">> }

\* The same, with two wordings of an approval and an answer that recommends
\* a manual review.
DiscussionWordings ==
    { <<"I", "approve">>, <<"Approve">>, <<"Reject">>, <<"Review">> }

\* Variant of previous_rounds: the messages of the round in progress are
\* passed along with the completed rounds.
previous_rounds_WithRoundInProgress(log, messages) ==
    IF messages = <<>> THEN log
    ELSE Append(log, [round |-> Len(log) + 1, messages |-> messages])

\* The previous_rounds argument of _get_agent_input:
\* discussion_log.get("rounds", []), whatever the round in progress holds
previous_rounds(log, messages) == log

\* str.lower(), word by word
LowerWord(w) ==
    CASE w = "I" -> "i"
      [] w = "Approve" -> "approve"
      [] w = "Reject" -> "reject"
      [] w = "Review" -> "review"
      [] OTHER -> w

lower(message) == [i \in 1..Len(message) |-> LowerWord(message[i])]

\* `sub in text` for sub = 'approve' or 'reject' and a lowercased text
ContainsWord(text, sub) ==
    \E i \in 1..Len(text) :
        \/ text[i] = sub
        \/ sub = "approve" /\ text[i] \in {"approved", "disapprove"}
        \/ sub = "reject" /\ text[i] \in {"rejected", "rejection"}

\* _check_early_consensus: the lowercased texts of the messages that contain
\* 'approve' or 'reject' form a set of exactly one element
check_early_consensus(messages) ==
    LET recommendations ==
            { lower(messages[i].message) : i \in
                { j \in 1..Len(messages) :
                    \/ ContainsWord(lower(messages[j].message), "approve")
                    \/ ContainsWord(lower(messages[j].message), "reject") } }
    IN  Cardinality(recommendations) = 1

\* ------------------------------------------------------------------------
\* LoanApplicationProcessor.process
\* ------------------------------------------------------------------------

\* What an analyzer coroutine of process() returns.  The analyzers are opaque
\* to process(): a result is an object with the attributes process() reads,
\* red_flags being one a result may lack (the verification result has none).
AnalyzerReturns ==
    { [risk_score |-> 10, recommendation |-> "approve", confidence_score |-> 85],
      [risk_score |-> 10, recommendation |-> "approve", confidence_score |-> 90,
       red_flags |-> <<>>],
      [risk_score |-> 15, recommendation |-> "approve", confidence_score |-> 90,
       red_flags |-> <<>>],
      [risk_score |-> 75, recommendation |-> "reject", confidence_score |-> 0,
       red_flags |-> <<LateFlag>>],
      [risk_score |-> 20, recommendation |-> "review", confidence_score |-> 50,
       red_flags |-> <<LateFlag, FraudFlag>>] }

\* The applications process() is run on.
Applications ==
    { [loan_request |-> r] : r \in
        { [loan_amount |-> 10000, loan_duration |-> 24, loan_purpose |-> "personal"],
          [loan_amount |-> 60000, loan_duration |-> 48, loan_purpose |-> "education"] } }

VARIABLES
    pc,                \* the statement process() is at
    application,       \* the LoanApplication being processed
    tasks,             \* per analyzer: <<>> while running, <<what it produced>>
    analysis_results,  \* dict(zip(tasks.keys(), results))
    discussion_log,    \* discussion_log["rounds"]
    round_num,         \* the loop variable of facilitate_discussion
    round_messages,    \* the messages of the round in progress
    consensus,         \* <<>> or <<the dictionary build_consensus returned>>
    final_decision,    \* <<>> or <<the DecisionResult make_decision returned>>
    outcome,           \* "running", "returned", or the exception process() raised
    prompt,            \* <<>> or <<what the latest _get_agent_input call was given>>
    post_pc,           \* the statement POST /api/loan-application is at
    body,              \* the JSON body of the request
    client,            \* the database client: acquired or not, times released
    db,                \* the transaction and the rows written and persisted
    agent_requests,    \* the payloads sent to the AI agent's /api/process
    response,          \* <<>> or <<the response of the handler>>
    step,              \* LoanForm: the step shown (1..5)
    data,              \* LoanForm: the document fields of the form data
    isSubmitted,       \* LoanForm: the result screen is shown
    formCustomerId,    \* LoanForm: the state customerId
    aiDecision,        \* LoanForm: <<>> for null, or <<the decision>>
    isLoadingDecision, \* LoanForm: the decision is being waited for
    isSubmitting,      \* LoanForm: the submit button shows its spinner
    form_pc,           \* handleSubmit: "idle" or awaiting the POST response
    submitted,         \* the bodies handleSubmit has sent
    mount,             \* the number of DocumentsStep instances rendered so far
    uploads,           \* the uploads of handleFileChange still in flight
    poll,              \* the closure of pollDecision: state, attempts, custId
    health_pc,         \* the statement GET /api/health is at
    env,               \* process.env: the variables that are set
    checks,            \* the checks object GET /api/health builds
    health_response    \* <<>> or <<the response of GET /api/health>>

process_vars == <<pc, application, tasks, analysis_results, discussion_log,
                  round_num, round_messages, consensus, final_decision, outcome,
                  prompt>>

post_vars == <<post_pc, body, client, db, agent_requests, response>>

form_vars == <<step, data, isSubmitted, formCustomerId, aiDecision,
               isLoadingDecision, isSubmitting, form_pc, submitted, mount,
               uploads, poll>>

health_vars == <<health_pc, env, checks, health_response>>

vars == <<process_vars, post_vars, form_vars, health_vars>>

Running == [k \in AgentKeySet |-> <<>>]

\* No request is being handled by POST /api/loan-application.
PostIdle ==
    /\ post_pc = "idle"
    /\ body = <<>>
    /\ client = [acquired |-> FALSE, released |-> 0]
    /\ db = [tx |-> "none", written |-> {}, persisted |-> {}]
    /\ agent_requests = <<>>
    /\ response = <<>>

\* The environment variables GET /api/health reads.
EnvNames == {"DB_HOST", "DB_USER", "DB_NAME", "GCS_BUCKET_NAME",
             "GOOGLE_APPLICATION_CREDENTIALS"}

\* INITIAL_DATA, restricted to the document fields: a field is <<>> when
\* it is empty and <<value>> when it is set.
INITIAL_DATA ==
    [ bankStatementName |-> <<>>, bankStatementUrl |-> <<>>,
      salaryStatementName |-> <<>>, salaryStatementUrl |-> <<>> ]

\* The state of LoanForm after its first render: the useState initial
\* values, no request sent, no upload started, no poll running.
FormInit ==
    /\ step = 1
    /\ data = INITIAL_DATA
    /\ isSubmitted = FALSE
    /\ formCustomerId = ""
    /\ aiDecision = <<>>
    /\ isLoadingDecision = FALSE
    /\ isSubmitting = FALSE
    /\ form_pc = "idle"
    /\ submitted = <<>>
    /\ mount = 0
    /\ uploads = {}
    /\ poll = [state |-> "none", attempts |-> 0, custId |-> ""]

\* No request is being handled by GET /api/health.
HealthIdle ==
    /\ health_pc = "idle"
    /\ env = {}
    /\ checks = <<>>
    /\ health_response = <<>>

Init ==
    /\ pc = "gather"
    /\ application \in Applications
    /\ tasks = Running
    /\ analysis_results = Running
    /\ discussion_log = <<>>
    /\ round_num = 0
    /\ round_messages = <<>>
    /\ consensus = <<>>
    /\ final_decision = <<>>
    /\ outcome = "running"
    /\ prompt = <<>>
    /\ PostIdle
    /\ FormInit
    /\ HealthIdle

\* One of the three coroutines handed to asyncio.gather finishes: it returns
\* an analysis result or raises.
AnalyzerFinishes(k) ==
    /\ pc = "gather"
    /\ tasks[k] = <<>>
    /\ \E r \in AnalyzerReturns \cup {ExceptionObject} :
           tasks' = [tasks EXCEPT ![k] = <<r>>]
    /\ UNCHANGED <<pc, application, analysis_results, discussion_log, round_num,
                   round_messages, consensus, final_decision, outcome>>
    /\ UNCHANGED <<prompt, post_vars, form_vars, health_vars>>

\* Variant of Gather: return_exceptions is not set, so the first exception of
\* a coroutine is raised to process().
Gather_RaiseFirst ==
    /\ pc = "gather"
    /\ \A k \in AgentKeySet : tasks[k] # <<>>
    /\ IF \E k \in AgentKeySet : tasks[k][1] = ExceptionObject
       THEN /\ pc' = "done"
            /\ outcome' = "Exception"
            /\ UNCHANGED analysis_results
       ELSE /\ analysis_results' = [k \in AgentKeySet |-> tasks[k][1]]
            /\ pc' = "discussion"
            /\ UNCHANGED outcome
    /\ UNCHANGED <<application, tasks, discussion_log, round_num, round_messages,
                   consensus, final_decision>>
    /\ UNCHANGED <<prompt, post_vars, form_vars, health_vars>>

\* await asyncio.gather(*tasks.values(), return_exceptions=True) returns once
\* every coroutine has finished; analysis_results = dict(zip(keys, results)).
Gather ==
    /\ pc = "gather"
    /\ \A k \in AgentKeySet : tasks[k] # <<>>
    /\ analysis_results' = [k \in AgentKeySet |-> tasks[k][1]]
    /\ pc' = "discussion"
    /\ UNCHANGED <<application, tasks, discussion_log, round_num, round_messages,
                   consensus, final_decision, outcome>>
    /\ UNCHANGED <<prompt, post_vars, form_vars, health_vars>>

\* _get_agent_input for the next participant of the round: agent.run answers
\* with a text, which is appended to round_messages, or raises, which ends
\* process() with that exception.
AgentInput(texts) ==
    /\ pc = "discussion"
    /\ Len(round_messages) < Len(participants)
    /\ prompt' = << [ agent |-> participants[Len(round_messages) + 1],
                      round |-> round_num + 1,
                      previous_rounds |->
                          previous_rounds(discussion_log, round_messages) ] >>
    /\ \/ /\ \E text \in texts :
                round_messages' = Append(round_messages,
                    [agent |-> participants[Len(round_messages) + 1],
                     message |-> text])
          /\ UNCHANGED <<pc, outcome>>
       \/ /\ pc' = "done"
          /\ outcome' = "AgentRunError"
          /\ UNCHANGED round_messages
    /\ UNCHANGED <<application, tasks, analysis_results, discussion_log, round_num,
                   consensus, final_decision>>
    /\ UNCHANGED <<post_vars, form_vars, health_vars>>

GetAgentInput == AgentInput(DiscussionTexts)

\* Variant of EndRound: the log keeps the latest round only.
EndRound_KeepsLatest ==
    /\ pc = "discussion"
    /\ Len(round_messages) = Len(participants)
    /\ discussion_log' = <<[round |-> round_num + 1, messages |-> round_messages]>>
    /\ IF check_early_consensus(round_messages) \/ round_num + 1 >= max_rounds
       THEN /\ pc' = "build_consensus"
            /\ UNCHANGED <<round_num, round_messages>>
       ELSE /\ round_num' = round_num + 1
            /\ round_messages' = <<>>
            /\ UNCHANGED pc
    /\ UNCHANGED <<application, tasks, analysis_results, consensus, final_decision,
                   outcome>>
    /\ UNCHANGED <<prompt, post_vars, form_vars, health_vars>>

\* Variant of EndRound: the loop has no round limit.
EndRound_NoLimit ==
    /\ pc = "discussion"
    /\ Len(round_messages) = Len(participants)
    /\ discussion_log' = Append(discussion_log,
           [round |-> round_num + 1, messages |-> round_messages])
    /\ IF check_early_consensus(round_messages)
       THEN /\ pc' = "build_consensus"
            /\ UNCHANGED <<round_num, round_messages>>
       ELSE /\ round_num' = round_num + 1
            /\ round_messages' = <<>>
            /\ UNCHANGED pc
    /\ UNCHANGED <<application, tasks, analysis_results, consensus, final_decision,
                   outcome>>
    /\ UNCHANGED <<prompt, post_vars, form_vars, health_vars>>

\* The end of one iteration of `for round_num in range(max_rounds)`: the round
\* is appended to the log; the loop ends on early consensus or after the last
\* round.
EndRound ==
    /\ pc = "discussion"
    /\ Len(round_messages) = Len(participants)
    /\ discussion_log' = Append(discussion_log,
           [round |-> round_num + 1, messages |-> round_messages])
    /\ IF check_early_consensus(round_messages) \/ round_num + 1 >= max_rounds
       THEN /\ pc' = "build_consensus"
            /\ UNCHANGED <<round_num, round_messages>>
       ELSE /\ round_num' = round_num + 1
            /\ round_messages' = <<>>
            /\ UNCHANGED pc
    /\ UNCHANGED <<application, tasks, analysis_results, consensus, final_decision,
                   outcome>>
    /\ UNCHANGED <<prompt, post_vars, form_vars, health_vars>>

\* await self.comm_hub.build_consensus(...): reading the attributes of an
\* exception object raises AttributeError; a zero confidence sum raises
\* ZeroDivisionError.
BuildConsensus ==
    /\ pc = "build_consensus"
    /\ IF \E k \in AgentKeySet : LacksResultAttributes(analysis_results[k])
       THEN /\ pc' = "done"
            /\ outcome' = "AttributeError"
            /\ UNCHANGED consensus
       ELSE IF SumConfidence(analysis_results, 1) = 0
       THEN /\ pc' = "done"
            /\ outcome' = "ZeroDivisionError"
            /\ UNCHANGED consensus
       ELSE /\ consensus' = <<build_consensus(analysis_results)>>
            /\ pc' = "make_decision"
            /\ UNCHANGED outcome
    /\ UNCHANGED <<application, tasks, analysis_results, discussion_log, round_num,
                   round_messages, final_decision>>
    /\ UNCHANGED <<prompt, post_vars, form_vars, health_vars>>

\* await self.loan_officer.make_decision(...): reading .risk_score of an
\* exception object raises AttributeError.
MakeDecision ==
    /\ pc = "make_decision"
    /\ IF \E k \in AgentKeySet : LacksResultAttributes(analysis_results[k])
       THEN /\ pc' = "done"
            /\ outcome' = "AttributeError"
            /\ UNCHANGED final_decision
       ELSE /\ final_decision' =
                   <<make_decision(application, analysis_results, consensus[1])>>
            /\ pc' = "save_decision"
            /\ UNCHANGED outcome
    /\ UNCHANGED <<application, tasks, analysis_results, discussion_log, round_num,
                   round_messages, consensus>>
    /\ UNCHANGED <<prompt, post_vars, form_vars, health_vars>>

\* await self.save_decision(...); return final_decision
SaveDecision ==
    /\ pc = "save_decision"
    /\ pc' = "done"
    /\ outcome' = "returned"
    /\ UNCHANGED <<application, tasks, analysis_results, discussion_log, round_num,
                   round_messages, consensus, final_decision>>
    /\ UNCHANGED <<prompt, post_vars, form_vars, health_vars>>

Next ==
    \/ \E k \in AgentKeySet : AnalyzerFinishes(k)
    \/ Gather
    \/ GetAgentInput
    \/ EndRound
    \/ BuildConsensus
    \/ MakeDecision
    \/ SaveDecision

Spec == Init /\ [][Next]_vars

\* ------------------------------------------------------------------------
\* make_decision as a function of its arguments
\* ------------------------------------------------------------------------

\* The sub_agent_results make_decision is applied to: analysis results with
\* a red_flags list and, for the verification, also results without one.
DecideInputs ==
    [ risk_score : RiskValues, recommendation : {"approve"},
      confidence_score : {90}, red_flags : RedFlagLists ]

DecideInputsWithoutFlags ==
    [ risk_score : RiskValues, recommendation : {"approve"},
      confidence_score : {85} ]

InitDecide ==
    /\ pc = "make_decision"
    /\ application \in { [loan_request |-> r] : r \in LoanRequests }
    /\ \E bank \in DecideInputs, salary \in DecideInputs,
          verification \in DecideInputs \cup DecideInputsWithoutFlags :
           analysis_results = [k \in AgentKeySet |->
               IF k = "bank_analysis" THEN bank
               ELSE IF k = "salary_analysis" THEN salary
               ELSE verification]
    /\ tasks = [k \in AgentKeySet |-> <<analysis_results[k]>>]
    /\ discussion_log = <<>>
    /\ round_num = 0
    /\ round_messages = <<>>
    /\ consensus \in { <<[consensus_strength |-> s]>> : s \in ConsensusStrengths }
    /\ final_decision = <<>>
    /\ outcome = "running"
    /\ prompt = <<>>
    /\ PostIdle
    /\ FormInit
    /\ HealthIdle

NextDecide == MakeDecision

SpecDecide == InitDecide /\ [][NextDecide]_vars

\* ------------------------------------------------------------------------
\* make_decision called twice with the same arguments
\* ------------------------------------------------------------------------

\* What datetime.utcnow().isoformat() gives at the two calls.
Timestamps == { "2025-01-01T10:00:00", "2025-01-01T10:00:07" }

\* Variant of make_decision_at: the explanation mentions the time of the call.
make_decision_at_Drifting(appl, sub_agent_results, cons, now) ==
    LET result == make_decision(appl, sub_agent_results, cons)
    IN  [ f \in DOMAIN result \cup {"timestamp"} |->
            IF f \in {"timestamp", "explanation"} THEN now ELSE result[f] ]

\* The DecisionResult make_decision returns when the clock reads now: the
\* result built at the end of make_decision carries timestamp = now, the
\* results built by _check_override_conditions are given no timestamp.
make_decision_at(appl, sub_agent_results, cons, now) ==
    LET result == make_decision(appl, sub_agent_results, cons)
    IN  IF check_override_conditions(sub_agent_results, cons) # <<>>
        THEN result
        ELSE [ f \in DOMAIN result \cup {"timestamp"} |->
                 IF f = "timestamp" THEN now ELSE result[f] ]

\* The arguments of the two calls.  An analyzer's risk_score is whatever the
\* analyzer returned: nothing between the analyzer and make_decision checks
\* it, so values outside 0..100 are among the arguments.
InitDecideTwice ==
    /\ pc = "make_decision"
    /\ application \in { [loan_request |-> r] : r \in LoanRequests }
    /\ \E bank \in [ risk_score : {10, 50, 100, 150}, recommendation : {"approve"},
                     confidence_score : {90}, red_flags : RedFlagLists ],
          salary \in [ risk_score : {-20, 10, 50}, recommendation : {"approve"},
                       confidence_score : {90}, red_flags : RedFlagLists ],
          verification \in [ risk_score : {10, 50}, recommendation : {"approve"},
                             confidence_score : {85} ] :
           analysis_results = [k \in AgentKeySet |->
               IF k = "bank_analysis" THEN bank
               ELSE IF k = "salary_analysis" THEN salary
               ELSE verification]
    /\ tasks = [k \in AgentKeySet |-> <<analysis_results[k]>>]
    /\ discussion_log = <<>>
    /\ round_num = 0
    /\ round_messages = <<>>
    /\ consensus \in { <<[consensus_strength |-> s]>> : s \in ConsensusStrengths }
    /\ final_decision = <<>>
    /\ outcome = "running"
    /\ prompt = <<>>
    /\ PostIdle
    /\ FormInit
    /\ HealthIdle

\* One of the two calls of make_decision on the same arguments;
\* final_decision collects the two results.
MakeDecisionAgain ==
    /\ pc = "make_decision"
    /\ Len(final_decision) < 2
    /\ \E now \in Timestamps :
           final_decision' = Append(final_decision,
               make_decision_at(application, analysis_results, consensus[1], now))
    /\ pc' = IF Len(final_decision) = 1 THEN "done" ELSE pc
    /\ UNCHANGED <<application, tasks, analysis_results, discussion_log, round_num,
                   round_messages, consensus, outcome>>
    /\ UNCHANGED <<prompt, post_vars, form_vars, health_vars>>

NextDecideTwice == MakeDecisionAgain

SpecDecideTwice == InitDecideTwice /\ [][NextDecideTwice]_vars

\* ------------------------------------------------------------------------
\* The dispatch of process(): the analyzer coroutines and asyncio.gather
\* ------------------------------------------------------------------------

NextDispatch ==
    \/ \E k \in AgentKeySet : AnalyzerFinishes(k)
    \/ Gather

\* The event loop resumes process() once gather is done.  An analyzer
\* coroutine awaits a model or a network call and nothing in process() bounds
\* that wait: the bank and the verification analyzers are taken to finish,
\* the salary analyzer may never do.
SpecDispatch ==
    /\ Init /\ [][NextDispatch]_vars
    /\ WF_vars(Gather)
    /\ WF_vars(AnalyzerFinishes("bank_analysis"))
    /\ WF_vars(AnalyzerFinishes("verification"))

\* ------------------------------------------------------------------------
\* facilitate_discussion on its own, with every wording an agent may answer
\* ------------------------------------------------------------------------

\* facilitate_discussion is entered with the results of the three analyzers.
InitDiscussion ==
    /\ pc = "discussion"
    /\ application =
           [loan_request |-> [loan_amount |-> 10000, loan_duration |-> 24,
                              loan_purpose |-> "personal"]]
    /\ tasks = [k \in AgentKeySet |->
           <<[risk_score |-> 15, recommendation |-> "approve",
              confidence_score |-> 90, red_flags |-> <<>>]>>]
    /\ analysis_results = [k \in AgentKeySet |-> tasks[k][1]]
    /\ discussion_log = <<>>
    /\ round_num = 0
    /\ round_messages = <<>>
    /\ consensus = <<>>
    /\ final_decision = <<>>
    /\ outcome = "running"
    /\ prompt = <<>>
    /\ PostIdle
    /\ FormInit
    /\ HealthIdle

GetAgentInputAnyWording == AgentInput(DiscussionWordings)

NextDiscussion ==
    \/ GetAgentInputAnyWording
    \/ EndRound

\* Every await of agent.run is taken to complete (by returning or raising),
\* and the loop body runs on once it has.
SpecDiscussion ==
    /\ InitDiscussion /\ [][NextDiscussion]_vars
    /\ WF_vars(GetAgentInputAnyWording)
    /\ WF_vars(EndRound)

\* ------------------------------------------------------------------------
\* POST /api/loan-application (the Next.js route handler)
\*
\* A field of the JSON body is <<>> when it is absent and <<value>> when it
\* is present; values are the strings the form sends.
\* ------------------------------------------------------------------------

\* `!x` is false: x is present and not the empty string
Truthy(field) == field # <<>> /\ field[1] # ""

\* parseFloat(x) and parseInt(x): <<n>>, or <<>> for NaN (absent or not a
\* number)
parseFloat(field) ==
    IF field = <<"10000">> THEN <<10000>>
    ELSE IF field = <<"0">> THEN <<0>>
    ELSE <<>>

parseInt(field) ==
    IF field = <<"24">> THEN <<24>>
    ELSE <<>>

\* `n || 0` for a number n: NaN and 0 give 0
OrZero(number) == IF number = <<>> THEN 0 ELSE number[1]

\* `x || null`
OrNull(field) == IF Truthy(field) THEN field ELSE <<>>

\* The bodies a request carries.
Bodies ==
    [ firstName : {<<>>, <<"">>, <<"Nino">>},
      lastName : {<<>>, <<"Beridze">>},
      personalId : {<<>>, <<"01001011111">>},
      loanPurpose : {<<>>, <<"personal">>},
      loanAmount : {<<>>, <<"10000">>, <<"abc">>},
      loanDuration : {<<>>, <<"24">>},
      bankStatementUrl : {<<>>, <<"gs://bucket/bank.pdf">>},
      salaryStatementUrl : {<<>>, <<"gs://bucket/salary.pdf">>} ]

\* A request whose body is not JSON: request.json() throws.
MalformedBody == [malformed |-> TRUE]

\* uuidv4()
customerId == "customer-1"

\* The rows the handler inserts, in the order of its statements.  The
\* document rows are inserted only for the URLs the body carries.
RowOf(table, b) ==
    IF table = "loan_applications"
    THEN [ table |-> table,
           loan_purpose |-> b.loanPurpose,
           loan_amount |-> OrZero(parseFloat(b.loanAmount)),
           loan_duration |-> OrZero(parseInt(b.loanDuration)) ]
    ELSE [ table |-> table ]

InsertOrder ==
    << "customers", "customer_personal_info", "customer_education",
       "customer_employment", "loan_applications", "bank_statement",
       "salary_statement" >>

\* The statement after the i-th of InsertOrder: the next insert the body
\* calls for, or the COMMIT.
RECURSIVE NextStatement(_, _)
NextStatement(i, b) ==
    IF i >= Len(InsertOrder) THEN "commit"
    ELSE IF InsertOrder[i + 1] = "bank_statement" /\ ~Truthy(b.bankStatementUrl)
    THEN NextStatement(i + 1, b)
    ELSE IF InsertOrder[i + 1] = "salary_statement" /\ ~Truthy(b.salaryStatementUrl)
    THEN NextStatement(i + 1, b)
    ELSE InsertOrder[i + 1]

IndexOf(table) == CHOOSE i \in 1..Len(InsertOrder) : InsertOrder[i] = table

\* The JSON sent to the AI agent
AgentPayload(b) ==
    [ customerId |-> customerId,
      firstName |-> b.firstName,
      lastName |-> b.lastName,
      personalId |-> b.personalId,
      loanPurpose |-> b.loanPurpose,
      loanAmount |-> OrZero(parseFloat(b.loanAmount)),
      loanDuration |-> OrZero(parseInt(b.loanDuration)),
      bankStatementUrl |-> OrNull(b.bankStatementUrl),
      salaryStatementUrl |-> OrNull(b.salaryStatementUrl) ]

\* process() is not running.
ProcessIdle ==
    /\ pc = "idle"
    /\ application = <<>>
    /\ tasks = Running
    /\ analysis_results = Running
    /\ discussion_log = <<>>
    /\ round_num = 0
    /\ round_messages = <<>>
    /\ consensus = <<>>
    /\ final_decision = <<>>
    /\ outcome = "running"
    /\ prompt = <<>>

InitPost ==
    /\ ProcessIdle
    /\ FormInit
    /\ HealthIdle
    /\ post_pc = "getClient"
    /\ body \in Bodies \cup {MalformedBody}
    /\ client = [acquired |-> FALSE, released |-> 0]
    /\ db = [tx |-> "none", written |-> {}, persisted |-> {}]
    /\ agent_requests = <<>>
    /\ response = <<>>

\* client = await getClient(): on failure the handler answers 503 and
\* returns before the second try statement.
GetClient ==
    /\ post_pc = "getClient"
    /\ \/ /\ client' = [client EXCEPT !.acquired = TRUE]
          /\ post_pc' = "json"
          /\ UNCHANGED response
       \/ /\ response' = <<[status |-> 503, error |-> "Database connection failed"]>>
          /\ post_pc' = "done"
          /\ UNCHANGED client
    /\ UNCHANGED <<body, db, agent_requests>>
    /\ UNCHANGED <<process_vars, form_vars, health_vars>>

\* body = await request.json(), then the check of the required fields.
ValidateBody ==
    /\ post_pc = "json"
    /\ IF "malformed" \in DOMAIN body
       THEN /\ post_pc' = "catch"
            /\ UNCHANGED response
       ELSE IF ~Truthy(body.firstName) \/ ~Truthy(body.lastName)
                   \/ ~Truthy(body.personalId)
       THEN /\ response' = <<[status |-> 400, error |-> "Missing required fields"]>>
            /\ post_pc' = "finally"
       ELSE /\ post_pc' = "begin"
            /\ UNCHANGED response
    /\ UNCHANGED <<body, client, db, agent_requests>>
    /\ UNCHANGED <<process_vars, form_vars, health_vars>>

\* await client.query('BEGIN')
Begin ==
    /\ post_pc = "begin"
    /\ \/ /\ db' = [db EXCEPT !.tx = "open"]
          /\ post_pc' = "customers"
       \/ /\ post_pc' = "catch"
          /\ UNCHANGED db
    /\ UNCHANGED <<body, client, agent_requests, response>>
    /\ UNCHANGED <<process_vars, form_vars, health_vars>>

\* Variant of Insert: a statement that throws is skipped.
Insert_IgnoresFailure(table) ==
    /\ post_pc = table
    /\ \/ /\ db' = [db EXCEPT !.written = @ \cup {RowOf(table, body)}]
          /\ post_pc' = NextStatement(IndexOf(table), body)
       \/ /\ post_pc' = NextStatement(IndexOf(table), body)
          /\ UNCHANGED db
    /\ UNCHANGED <<body, client, agent_requests, response>>
    /\ UNCHANGED <<process_vars, form_vars, health_vars>>

\* One of the INSERT statements: the row is written inside the transaction,
\* or the statement throws.
Insert(table) ==
    /\ post_pc = table
    /\ \/ /\ db' = [db EXCEPT !.written = @ \cup {RowOf(table, body)}]
          /\ post_pc' = NextStatement(IndexOf(table), body)
       \/ /\ post_pc' = "catch"
          /\ UNCHANGED db
    /\ UNCHANGED <<body, client, agent_requests, response>>
    /\ UNCHANGED <<process_vars, form_vars, health_vars>>

\* await client.query('COMMIT')
Commit ==
    /\ post_pc = "commit"
    /\ \/ /\ db' = [db EXCEPT !.tx = "committed", !.persisted = db.written]
          /\ post_pc' = "fetch"
       \/ /\ post_pc' = "catch"
          /\ UNCHANGED db
    /\ UNCHANGED <<body, client, agent_requests, response>>
    /\ UNCHANGED <<process_vars, form_vars, health_vars>>

\* Variant of SendToAgent: a failed call is thrown to the outer catch block.
SendToAgent_FailsRequest ==
    /\ post_pc = "fetch"
    /\ \E result \in {"ok", "not_ok", "unreachable"} :
           /\ agent_requests' = Append(agent_requests,
                  [payload |-> AgentPayload(body), result |-> result])
           /\ post_pc' = IF result = "ok" THEN "respond" ELSE "catch"
    /\ UNCHANGED <<body, client, db, response>>
    /\ UNCHANGED <<process_vars, form_vars, health_vars>>

\* The inner try: fetch('http://localhost:8000/api/process', ...).  The agent
\* answers ok, answers with an error status, or cannot be reached; the two
\* failures are logged and swallowed.
SendToAgent ==
    /\ post_pc = "fetch"
    /\ \E result \in {"ok", "not_ok", "unreachable"} :
           agent_requests' = Append(agent_requests,
               [payload |-> AgentPayload(body), result |-> result])
    /\ post_pc' = "respond"
    /\ UNCHANGED <<body, client, db, response>>
    /\ UNCHANGED <<process_vars, form_vars, health_vars>>

\* return NextResponse.json({success: true, customerId, ...}, {status: 201})
Respond201 ==
    /\ post_pc = "respond"
    /\ response' = <<[status |-> 201, customerId |-> customerId]>>
    /\ post_pc' = "finally"
    /\ UNCHANGED <<body, client, db, agent_requests>>
    /\ UNCHANGED <<process_vars, form_vars, health_vars>>

\* Variant of Rollback: an exception thrown by the ROLLBACK leaves the handler
\* without the finally block.
Rollback_SkipsRelease ==
    /\ post_pc = "catch"
    /\ \/ /\ db' = [db EXCEPT !.tx = IF db.tx = "open" THEN "rolled_back" ELSE @,
                             !.written = {}]
          /\ response' = <<[status |-> 500, error |-> "Failed to submit loan application"]>>
          /\ post_pc' = "finally"
       \/ /\ response' = <<[status |-> 500, error |-> "unhandled"]>>
          /\ post_pc' = "done"
          /\ UNCHANGED db
    /\ UNCHANGED <<body, client, agent_requests>>
    /\ UNCHANGED <<process_vars, form_vars, health_vars>>

\* The catch block: await client.query('ROLLBACK'), then the 500 response.
\* If the ROLLBACK throws, the exception leaves the handler after the finally
\* block and the framework answers 500.
Rollback ==
    /\ post_pc = "catch"
    /\ \/ /\ db' = [db EXCEPT !.tx = IF db.tx = "open" THEN "rolled_back" ELSE @,
                             !.written = {}]
          /\ response' = <<[status |-> 500, error |-> "Failed to submit loan application"]>>
       \/ /\ response' = <<[status |-> 500, error |-> "unhandled"]>>
          /\ UNCHANGED db
    /\ post_pc' = "finally"
    /\ UNCHANGED <<body, client, agent_requests>>
    /\ UNCHANGED <<process_vars, form_vars, health_vars>>

\* finally { client.release() }
Release ==
    /\ post_pc = "finally"
    /\ client' = [client EXCEPT !.released = @ + 1]
    /\ post_pc' = "done"
    /\ UNCHANGED <<body, db, agent_requests, response>>
    /\ UNCHANGED <<process_vars, form_vars, health_vars>>

NextPost ==
    \/ GetClient
    \/ ValidateBody
    \/ Begin
    \/ \E i \in 1..Len(InsertOrder) : Insert(InsertOrder[i])
    \/ Commit
    \/ SendToAgent
    \/ Respond201
    \/ Rollback
    \/ Release

SpecPost == InitPost /\ [][NextPost]_vars

\* ------------------------------------------------------------------------
\* The application form: LoanForm with its DocumentsStep and Result screen
\*
\* A text field of the form data is <<>> when it is empty ('' or undefined)
\* and <<value>> when it is set.  Of the form data the model keeps the four
\* document fields; the fields of steps 1 to 4 are taken as filled in.
\* ------------------------------------------------------------------------

\* const maxAttempts = 30 in pollDecision
maxAttempts == 30

\* const totalSteps = 5
totalSteps == 5

\* How many times the documents step is rendered anew, and how many
\* requests the form sends.
MaxMounts == 2
MaxSubmissions == 1

Documents == {"bank", "salary"}

\* The arguments nameField and urlField of handleFileChange
nameField(doc) ==
    IF doc = "bank" THEN "bankStatementName" ELSE "salaryStatementName"

urlField(doc) ==
    IF doc = "bank" THEN "bankStatementUrl" ELSE "salaryStatementUrl"

\* The file the user picks for a document, and result.fileUrl of
\* /api/upload-document for it.
FileOf(doc) == IF doc = "bank" THEN "bank.pdf" ELSE "payslip.pdf"

fileUrl(doc) ==
    IF doc = "bank" THEN "https://storage/bank.pdf"
    ELSE "https://storage/payslip.pdf"

\* validateStep(currentStep): step 5 requires the two file names.
validateStep(currentStep) ==
    IF currentStep = 5
    THEN data.bankStatementName # <<>> /\ data.salaryStatementName # <<>>
    ELSE TRUE

\* uploadingBank / uploadingSalary of the DocumentsStep instance on screen
uploading(doc) ==
    \E u \in uploads : u.doc = doc /\ u.mount = mount

\* result.customerId of the n-th request to /api/loan-application
CustomerIdOf(n) == IF n = 1 THEN "customer-1" ELSE "customer-2"

\* What GET /api/result/{custId} of the AI agent returns.
AgentDecisions(custId) ==
    { [decision |-> d, customer |-> custId, conditions |-> <<>>] :
        d \in {"APPROVED", "REJECTED", "MANUAL_REVIEW"} }

\* The decisions the form makes up itself.
Fallback(condition) ==
    [decision |-> "MANUAL_REVIEW", risk_score |-> 50, conditions |-> <<condition>>]

Fallbacks ==
    { Fallback("Processing timeout - manual review required"),
      Fallback("AI processing error - manual review required") }

\* What one call of poll() meets: the status the agent reports, a non-OK
\* answer to one of the two requests, or fetch throwing.
PollAnswers ==
    {"pending", "completed", "completed_result_not_ok", "failed",
     "status_not_ok", "fetch_error"}

\* The form is on screen (the result screen is not).
FormShown == ~isSubmitted

\* The Next button.
handleNext ==
    /\ FormShown
    /\ step < totalSteps
    /\ validateStep(step)
    /\ step' = step + 1
    /\ IF step' = 5
       THEN /\ mount < MaxMounts
            /\ mount' = mount + 1
       ELSE UNCHANGED mount
    /\ UNCHANGED <<data, isSubmitted, formCustomerId, aiDecision,
                   isLoadingDecision, isSubmitting, form_pc, submitted,
                   uploads, poll>>
    /\ UNCHANGED <<process_vars, post_vars, health_vars>>

\* The Back button: disabled on step 1 and while isSubmitting.
handleBack ==
    /\ FormShown
    /\ step > 1
    /\ ~isSubmitting
    /\ step' = step - 1
    /\ UNCHANGED <<data, isSubmitted, formCustomerId, aiDecision,
                   isLoadingDecision, isSubmitting, form_pc, submitted, mount,
                   uploads, poll>>
    /\ UNCHANGED <<process_vars, post_vars, health_vars>>

\* handleFileChange up to its await: the file and its name are stored, the
\* upload request is sent.  The input is disabled while its upload runs.
handleFileChange(doc) ==
    /\ FormShown
    /\ step = 5
    /\ ~uploading(doc)
    /\ data' = [data EXCEPT ![nameField(doc)] = <<FileOf(doc)>>]
    /\ uploads' = uploads \cup {[doc |-> doc, mount |-> mount]}
    /\ UNCHANGED <<step, isSubmitted, formCustomerId, aiDecision,
                   isLoadingDecision, isSubmitting, form_pc, submitted, mount,
                   poll>>
    /\ UNCHANGED <<process_vars, post_vars, health_vars>>

\* /api/upload-document answered OK: the URL is stored.
UploadSucceeds(u) ==
    /\ u \in uploads
    /\ data' = [data EXCEPT ![urlField(u.doc)] = <<fileUrl(u.doc)>>]
    /\ uploads' = uploads \ {u}
    /\ UNCHANGED <<step, isSubmitted, formCustomerId, aiDecision,
                   isLoadingDecision, isSubmitting, form_pc, submitted, mount,
                   poll>>
    /\ UNCHANGED <<process_vars, post_vars, health_vars>>

\* The upload failed (non-OK answer or fetch threw): the file selection is
\* cleared.
UploadFails(u) ==
    /\ u \in uploads
    /\ data' = [data EXCEPT ![nameField(u.doc)] = <<>>]
    /\ uploads' = uploads \ {u}
    /\ UNCHANGED <<step, isSubmitted, formCustomerId, aiDecision,
                   isLoadingDecision, isSubmitting, form_pc, submitted, mount,
                   poll>>
    /\ UNCHANGED <<process_vars, post_vars, health_vars>>

\* handleSubmit up to its await: validation, then the request is sent with
\* the URLs the form data holds at that moment.  The button is disabled
\* while isSubmitting.
handleSubmit ==
    /\ FormShown
    /\ step = 5
    /\ ~isSubmitting
    /\ validateStep(step)
    /\ Len(submitted) < MaxSubmissions
    /\ isSubmitting' = TRUE
    /\ submitted' = Append(submitted,
                       [ bankStatementUrl |-> data.bankStatementUrl,
                         salaryStatementUrl |-> data.salaryStatementUrl ])
    /\ form_pc' = "awaiting"
    /\ UNCHANGED <<step, data, isSubmitted, formCustomerId, aiDecision,
                   isLoadingDecision, mount, uploads, poll>>
    /\ UNCHANGED <<process_vars, post_vars, health_vars>>

\* The rest of handleSubmit: an OK answer shows the result screen and starts
\* pollDecision; anything else alerts and re-enables the button.
SubmitResponse ==
    /\ form_pc = "awaiting"
    /\ form_pc' = "idle"
    /\ \/ /\ formCustomerId' = CustomerIdOf(Len(submitted))
          /\ isSubmitted' = TRUE
          /\ isLoadingDecision' = TRUE
          /\ poll' = [state |-> "scheduled", attempts |-> 0,
                      custId |-> CustomerIdOf(Len(submitted))]
          /\ UNCHANGED isSubmitting
       \/ /\ isSubmitting' = FALSE
          /\ UNCHANGED <<formCustomerId, isSubmitted, isLoadingDecision, poll>>
    /\ UNCHANGED <<step, data, aiDecision, submitted, mount, uploads>>
    /\ UNCHANGED <<process_vars, post_vars, health_vars>>

\* One call of poll(): the first from pollDecision, the later ones from
\* setTimeout(poll, 2000).
Poll_NoLimit ==
    /\ poll.state = "scheduled"
    /\ poll.attempts < maxAttempts + 2
    /\ \E answer \in PollAnswers :
          IF answer = "completed"
          THEN /\ aiDecision' \in { <<d>> : d \in AgentDecisions(poll.custId) }
               /\ isLoadingDecision' = FALSE
               /\ poll' = [poll EXCEPT !.state = "ended",
                                       !.attempts = @ + 1]
          ELSE IF answer = "failed"
          THEN /\ aiDecision' =
                     <<Fallback("AI processing error - manual review required")>>
               /\ isLoadingDecision' = FALSE
               /\ poll' = [poll EXCEPT !.state = "ended",
                                       !.attempts = @ + 1]
          ELSE /\ poll' = [poll EXCEPT !.attempts = @ + 1]
               /\ UNCHANGED <<aiDecision, isLoadingDecision>>
    /\ UNCHANGED <<step, data, isSubmitted, formCustomerId, isSubmitting,
                   form_pc, submitted, mount, uploads>>
    /\ UNCHANGED <<process_vars, post_vars, health_vars>>

Poll ==
    /\ poll.state = "scheduled"
    /\ IF poll.attempts >= maxAttempts
       THEN /\ aiDecision' =
                  <<Fallback("Processing timeout - manual review required")>>
            /\ isLoadingDecision' = FALSE
            /\ poll' = [poll EXCEPT !.state = "ended"]
       ELSE \E answer \in PollAnswers :
               IF answer = "completed"
               THEN /\ aiDecision' \in
                          { <<d>> : d \in AgentDecisions(poll.custId) }
                    /\ isLoadingDecision' = FALSE
                    /\ poll' = [poll EXCEPT !.state = "ended",
                                            !.attempts = @ + 1]
               ELSE IF answer = "failed"
               THEN /\ aiDecision' =
                          <<Fallback("AI processing error - manual review required")>>
                    /\ isLoadingDecision' = FALSE
                    /\ poll' = [poll EXCEPT !.state = "ended",
                                            !.attempts = @ + 1]
               ELSE /\ poll' = [poll EXCEPT !.attempts = @ + 1]
                    /\ UNCHANGED <<aiDecision, isLoadingDecision>>
    /\ UNCHANGED <<step, data, isSubmitted, formCustomerId, isSubmitting,
                   form_pc, submitted, mount, uploads>>
    /\ UNCHANGED <<process_vars, post_vars, health_vars>>

\* The "Submit New Application" button of the result screen.  Result shows
\* it only when isLoading is false and aiDecision is not null; until then
\* it shows the spinner alone.
handleReset_WhileLoading ==
    /\ isSubmitted
    /\ data' = INITIAL_DATA
    /\ step' = 1
    /\ isSubmitted' = FALSE
    /\ formCustomerId' = ""
    /\ aiDecision' = <<>>
    /\ isLoadingDecision' = FALSE
    /\ UNCHANGED <<isSubmitting, form_pc, submitted, mount, uploads, poll>>
    /\ UNCHANGED <<process_vars, post_vars, health_vars>>

handleReset ==
    /\ isSubmitted
    /\ ~isLoadingDecision
    /\ aiDecision # <<>>
    /\ data' = INITIAL_DATA
    /\ step' = 1
    /\ isSubmitted' = FALSE
    /\ formCustomerId' = ""
    /\ aiDecision' = <<>>
    /\ isLoadingDecision' = FALSE
    /\ UNCHANGED <<isSubmitting, form_pc, submitted, mount, uploads, poll>>
    /\ UNCHANGED <<process_vars, post_vars, health_vars>>

InitForm ==
    /\ ProcessIdle
    /\ PostIdle
    /\ FormInit
    /\ HealthIdle

NextForm ==
    \/ handleNext
    \/ handleBack
    \/ \E doc \in Documents : handleFileChange(doc)
    \/ \E u \in uploads : UploadSucceeds(u)
    \/ \E u \in uploads : UploadFails(u)
    \/ handleSubmit
    \/ SubmitResponse
    \/ Poll
    \/ handleReset

\* The browser fires every timer and every request of poll() is answered
\* or fails.
SpecForm == InitForm /\ [][NextForm]_vars /\ WF_vars(Poll)

\* ------------------------------------------------------------------------
\* The route handler GET /api/health
\*
\* A status string is kept as <<mark, text>>: "check" for the mark of
\* success, "cross" for the mark of failure, "warning" for the warning
\* sign.  Every status string of the handler starts with one mark and
\* holds no other, so s.includes(mark) is a comparison of the first part.
\* ------------------------------------------------------------------------

includes(status, mark) == status # <<>> /\ status[1] = mark

\* services.database.configured and services.storage.configured
databaseConfigured == {"DB_HOST", "DB_USER", "DB_NAME"} \subseteq env

storageConfigured ==
    {"GCS_BUCKET_NAME", "GOOGLE_APPLICATION_CREDENTIALS"} \subseteq env

InitHealth ==
    /\ ProcessIdle
    /\ PostIdle
    /\ FormInit
    /\ health_pc = "start"
    /\ env \in SUBSET EnvNames
    /\ checks = <<>>
    /\ health_response = <<>>

\* The checks object and the recommendations for what is not configured.
BuildChecks ==
    /\ health_pc = "start"
    /\ checks' =
         [ status |-> <<"checking">>,
           database |-> [configured |-> databaseConfigured, status |-> <<>>],
           storage |-> [configured |-> storageConfigured, status |-> <<>>],
           recommendations |->
               (IF databaseConfigured THEN <<>>
                ELSE <<"Database not configured">>)
               \o (IF storageConfigured THEN <<>>
                   ELSE <<"Cloud Storage not configured">>) ]
    /\ health_pc' = "database"
    /\ UNCHANGED <<env, health_response>>
    /\ UNCHANGED <<process_vars, post_vars, form_vars>>

\* Test database connection if configured: SELECT 1 succeeds or throws.
TestDatabase ==
    /\ health_pc = "database"
    /\ IF checks.database.configured
       THEN \/ checks' = [checks EXCEPT
                            !.database.status = <<"check", "Connected">>]
            \/ checks' = [checks EXCEPT
                            !.database.status = <<"cross", "Failed">>,
                            !.recommendations =
                                Append(@, "Database connection failed")]
       ELSE checks' = [checks EXCEPT
                         !.database.status = <<"warning", "Not configured">>]
    /\ health_pc' = "storage"
    /\ UNCHANGED <<env, health_response>>
    /\ UNCHANGED <<process_vars, post_vars, form_vars>>

\* Test storage connection if configured: the bucket exists, does not
\* exist, or the check throws.
TestStorage ==
    /\ health_pc = "storage"
    /\ IF checks.storage.configured
       THEN \/ checks' = [checks EXCEPT
                            !.storage.status = <<"check", "Connected">>]
            \/ checks' = [checks EXCEPT
                            !.storage.status = <<"cross", "Bucket not found">>,
                            !.recommendations =
                                Append(@, "Storage bucket not found")]
            \/ checks' = [checks EXCEPT
                            !.storage.status = <<"cross", "Failed">>,
                            !.recommendations =
                                Append(@, "Storage connection failed")]
       ELSE checks' = [checks EXCEPT
                         !.storage.status = <<"warning", "Not configured">>]
    /\ health_pc' = "status"
    /\ UNCHANGED <<env, health_response>>
    /\ UNCHANGED <<process_vars, post_vars, form_vars>>

\* Determine overall status, and answer.
overallStatus(c) ==
    LET dbOk == includes(c.database.status, "check")
                \/ includes(c.database.status, "warning")
        storageOk == includes(c.storage.status, "check")
                     \/ includes(c.storage.status, "warning")
    IN  IF dbOk /\ storageOk /\ Len(c.recommendations) = 0
        THEN <<"check", "All systems operational">>
        ELSE IF Len(c.recommendations) > 0
        THEN <<"warning", "Configuration needed">>
        ELSE <<"cross", "Services unavailable">>

DetermineStatus ==
    /\ health_pc = "status"
    /\ checks' = [checks EXCEPT !.status = overallStatus(checks)]
    /\ health_response' =
         << [ status |-> IF includes(checks'.status, "cross") THEN 503 ELSE 200,
              body |-> checks' ] >>
    /\ health_pc' = "done"
    /\ UNCHANGED env
    /\ UNCHANGED <<process_vars, post_vars, form_vars>>

NextHealth ==
    \/ BuildChecks
    \/ TestDatabase
    \/ TestStorage
    \/ DetermineStatus

SpecHealth == InitHealth /\ [][NextHealth]_vars

\* ------------------------------------------------------------------------
\* Properties of the decision policy
\*
\* The code names the decisions "APPROVE", "REJECT" and "MANUAL_REVIEW" and
\* the categories "LOW_RISK" .. "HIGH_RISK"; the documentation calls them
\* APPROVED, REJECTED and LOW .. HIGH.
\* ------------------------------------------------------------------------

\* make_decision has returned a DecisionResult
Decided == final_decision # <<>>

Decision == final_decision[1]

\* The red flags analyzer k reported (none when its result has no list).
FlagsOf(k) ==
    IF "red_flags" \in DOMAIN analysis_results[k]
    THEN analysis_results[k].red_flags
    ELSE <<>>

\* Some analyzer's result has a red flag of type fraud.
AnyFraudFlag ==
    \E k \in AgentKeySet :
        \E i \in 1..Len(FlagsOf(k)) : FlagsOf(k)[i].type = "fraud"

\* The red flags of all analyzers, counted.
TotalFlagCount ==
    Len(FlagsOf("bank_analysis")) + Len(FlagsOf("salary_analysis"))
        + Len(FlagsOf("verification"))

\* consensus_strength < 0.6
WeakConsensus ==
    consensus[1].consensus_strength[1] * 10 < 6 * consensus[1].consensus_strength[2]

\* The weighted risk, in hundredths, of the three results and the loan.
WeightedRisk ==
    35 * analysis_results["bank_analysis"].risk_score
        + 30 * analysis_results["salary_analysis"].risk_score
        + 20 * analysis_results["verification"].risk_score
        + 15 * calculate_loan_risk(application.loan_request)

\* C1: a fraud red flag in any analyzer's result makes the decision REJECT
\* with risk_score 100, whatever the weighted risk, the number of red flags
\* and the consensus strength are.
C1_FraudFlagRejects ==
    (Decided /\ AnyFraudFlag) =>
        (Decision.decision = "REJECT" /\ Decision.risk_score = 10000)

\* C1 witness: a fraud flag with a weighted risk in the lowest band, fewer
\* than 3 red flags and full consensus, rejected at risk 100.
C1_Witness ==
    /\ Decided /\ AnyFraudFlag
    /\ WeightedRisk < 2000 /\ TotalFlagCount < 3 /\ ~WeakConsensus
    /\ Decision.decision = "REJECT" /\ Decision.risk_score = 10000

\* C2: without a fraud flag and with fewer than 3 red flags, a consensus
\* strength below 0.6 makes the decision MANUAL_REVIEW whatever the weighted
\* risk is.
C2_WeakConsensusIsManualReview ==
    (Decided /\ ~AnyFraudFlag /\ TotalFlagCount < 3 /\ WeakConsensus) =>
        Decision.decision = "MANUAL_REVIEW"

\* C2 witness: consensus strength 1/2 with a weighted risk in the lowest
\* band, decided MANUAL_REVIEW.
C2_Witness ==
    /\ Decided /\ ~AnyFraudFlag /\ TotalFlagCount < 3
    /\ consensus[1].consensus_strength = <<1, 2>>
    /\ WeightedRisk < 2000
    /\ Decision.decision = "MANUAL_REVIEW"

NoOverride == ~AnyFraudFlag /\ TotalFlagCount < 3 /\ ~WeakConsensus

\* C5 (as claimed): when no override fires, category and decision follow the
\* band of the weighted risk with both ends of each band inclusive: up to 20
\* LOW/APPROVE, up to 40 MODERATE_LOW/APPROVE, up to 60 MODERATE/MANUAL_REVIEW,
\* up to 75 MODERATE_HIGH/REJECT, above that HIGH/REJECT.
C5_InclusiveBands ==
    (Decided /\ NoOverride) =>
        LET r == Decision.risk_score
            expected == IF r <= 2000 THEN <<"LOW_RISK", "APPROVE">>
                        ELSE IF r <= 4000 THEN <<"MODERATE_LOW_RISK", "APPROVE">>
                        ELSE IF r <= 6000 THEN <<"MODERATE_RISK", "MANUAL_REVIEW">>
                        ELSE IF r <= 7500 THEN <<"MODERATE_HIGH_RISK", "REJECT">>
                        ELSE <<"HIGH_RISK", "REJECT">>
        IN  /\ Decision.risk_category = expected[1]
            /\ Decision.decision = expected[2]

\* The DecisionResult d carries no computed loan terms: the fields are absent
\* or both zero.
NoLoanTerms(d) ==
    \/ "approved_amount" \notin DOMAIN d
    \/ d.approved_amount = 0 /\ d.interest_rate = 0

C7_Scenario ==
    /\ \A k \in AgentKeySet :
           analysis_results[k] =
               [risk_score |-> 15, recommendation |-> "approve",
                confidence_score |-> 90, red_flags |-> <<>>]
    /\ application.loan_request.loan_amount = 10000
    /\ application.loan_request.loan_duration = 24

\* The loan terms of an APPROVE decision, by the tier of its risk score.
C7_ApprovedLoanTerms ==
    (Decided /\ Decision.decision = "APPROVE") =>
        LET requested == application.loan_request.loan_amount
            r == Decision.risk_score
        IN  /\ r < 2000 =>
                   /\ Decision.approved_amount = requested * 100
                   /\ Decision.interest_rate = 35
            /\ (r >= 2000 /\ r < 4000) =>
                   /\ Decision.approved_amount = requested * 90
                   /\ Decision.interest_rate = 55

\* process() run on the scenario decides APPROVE with the full amount.
C7_ScenarioApproved ==
    (Decided /\ C7_Scenario) =>
        /\ Decision.decision = "APPROVE"
        /\ Decision.approved_amount = 1000000
        /\ Decision.interest_rate = 35
        /\ Decision.loan_duration = 24
        /\ Decision.confidence_score = <<3, 3>>

\* C7: an APPROVE decision with risk below 20 grants the requested amount at
\* 3.5%; with risk from 20 up to but not including 40 it grants 0.9 times the
\* requested amount at 5.5%.  Three analyzers at risk 15/approve and no red
\* flags on $10,000 over 24 months give APPROVE, $10,000, 3.5%, consensus
\* strength 1.
C7_ApprovedTermsAndScenario == C7_ApprovedLoanTerms /\ C7_ScenarioApproved

\* C7 witness: an APPROVE decision in the second tier.
C7_Witness ==
    /\ Decided /\ Decision.decision = "APPROVE"
    /\ Decision.risk_score >= 2000 /\ Decision.risk_score < 4000
    /\ Decision.approved_amount = application.loan_request.loan_amount * 90
    /\ Decision.interest_rate = 55

\* C8 (as claimed): no APPROVE decision has a risk of 40 or more; every
\* APPROVE result is in one of the two loan-term tiers and does not carry the
\* additional-collateral condition.
C8_NoApprovalFromRisk40 ==
    (Decided /\ Decision.decision = "APPROVE") =>
        /\ Decision.risk_score < 4000
        /\ Decision.interest_rate \in {35, 55}
        /\ \A i \in 1..Len(Decision.conditions) :
               Decision.conditions[i] # "Additional collateral required"

\* The salary analyzer raised; the two other analyzers returned risk 10.
C9_Scenario ==
    /\ tasks["salary_analysis"] = <<ExceptionObject>>
    /\ \A k \in {"bank_analysis", "verification"} :
           /\ tasks[k] # <<>>
           /\ ~LacksResultAttributes(tasks[k][1])
           /\ tasks[k][1].risk_score = 10

\* C9 (as claimed): with the employment analyzer failed and the two others at
\* risk 10, process() ends with a decision whose weighted risk takes 75 for
\* the failed analyzer at its weight 0.30 and leaves the other weights as
\* they are.
C9_FailedAnalyzerPenalty ==
    (pc = "done" /\ outcome # "AgentRunError" /\ C9_Scenario) =>
        /\ outcome = "returned"
        /\ Decided
        /\ Decision.risk_score =
               35 * 10 + 30 * 75 + 20 * 10
                   + 15 * calculate_loan_risk(application.loan_request)

\* The confidence-weighted mean of the analyzers' risks, as a fraction.
ConfidenceWeightedRisk ==
    << analysis_results["bank_analysis"].risk_score
           * analysis_results["bank_analysis"].confidence_score
       + analysis_results["salary_analysis"].risk_score
           * analysis_results["salary_analysis"].confidence_score
       + analysis_results["verification"].risk_score
           * analysis_results["verification"].confidence_score,
       analysis_results["bank_analysis"].confidence_score
       + analysis_results["salary_analysis"].confidence_score
       + analysis_results["verification"].confidence_score >>

NonFailed == { k \in AgentKeySet : ~LacksResultAttributes(analysis_results[k]) }

\* The largest number of votes a recommendation got among results
MostVotes(results) ==
    CHOOSE n \in 1..Len(AgentKeys) :
        /\ \E k \in AgentKeySet : rec_count(results, results[k].recommendation) = n
        /\ \A k \in AgentKeySet : rec_count(results, results[k].recommendation) <= n

\* reject > review > approve
Conservativeness(rec) ==
    CASE rec = "reject" -> 3
      [] rec = "review" -> 2
      [] OTHER -> 1

\* C11 (as claimed): the consensus recommendation has the most votes, and
\* among the recommendations that tie for the most votes it is the most
\* conservative one under reject > review > approve, whatever the order of
\* the analyzers' results.
C11_TieBreaksConservative ==
    consensus # <<>> =>
        LET rec == consensus[1].consensus_recommendation
        IN  /\ rec_count(analysis_results, rec) = MostVotes(analysis_results)
            /\ \A k \in AgentKeySet :
                   rec_count(analysis_results, analysis_results[k].recommendation)
                       = MostVotes(analysis_results)
                   => Conservativeness(analysis_results[k].recommendation)
                          <= Conservativeness(rec)

\* C12 (as claimed): once the consensus step is over there is a consensus
\* whose strength is the number of non-failed analyzers recommending the
\* consensus recommendation divided by the number of non-failed analyzers,
\* 0 when every analyzer failed, and within [0, 1].
C12_StrengthOverNonFailed ==
    (pc \in {"make_decision", "save_decision", "done"}
         /\ outcome # "AgentRunError") =>
        /\ consensus # <<>>
        /\ LET strength == consensus[1].consensus_strength
               rec == consensus[1].consensus_recommendation
           IN  /\ 0 <= strength[1] /\ strength[1] <= strength[2]
               /\ IF NonFailed = {}
                  THEN strength[1] = 0
                  ELSE strength[1] * Cardinality(NonFailed)
                           = strength[2] * Cardinality(
                                 { k \in NonFailed :
                                     analysis_results[k].recommendation = rec })

\* ------------------------------------------------------------------------
\* Properties of the deliberation
\* ------------------------------------------------------------------------

\* facilitate_discussion is over: it returned the log or raised
DiscussionOver == pc \notin {"gather", "discussion"}

\* The early-consensus test of the code held on round i of the log
ConvergedIn(i) == check_early_consensus(discussion_log[i].messages)

\* The discussion stopped on the early-consensus test of its last round
Converged == discussion_log # <<>> /\ ConvergedIn(Len(discussion_log))

\* The discussion ran the configured number of rounds
RoundLimitReached == Len(discussion_log) = max_rounds

C13_RoundsBounded ==
    /\ Len(discussion_log) <= max_rounds
    /\ round_num < max_rounds
    /\ (DiscussionOver /\ outcome # "AgentRunError") =>
           /\ Converged \/ RoundLimitReached
           /\ (\A i \in 1..Len(discussion_log) : ~ConvergedIn(i))
                  => Len(discussion_log) = max_rounds
    /\ outcome = "AgentRunError" =>
           /\ Len(discussion_log) < max_rounds
           /\ \A i \in 1..Len(discussion_log) : ~ConvergedIn(i)

RecommendationIn(message) ==
    IF ContainsWord(lower(message), "reject") THEN "reject"
    ELSE IF ContainsWord(lower(message), "approve") THEN "approve"
    ELSE "review"

\* Every message of the round states the same recommendation
Unanimous(messages) ==
    \A i, j \in 1..Len(messages) :
        RecommendationIn(messages[i].message) = RecommendationIn(messages[j].message)

\* Round i of the log was followed by another round
Followed(i) == i < Len(discussion_log) \/ pc = "discussion"

\* C14 (as claimed): a completed round in which all analyzers (none failed)
\* state the same recommendation, be it approve, reject or review, is
\* followed by no further round; a round in which they do not, and which is
\* not the last allowed one, is followed by another round.
C14_StopsExactlyWhenUnanimous ==
    \A i \in 1..Len(discussion_log) :
        /\ Unanimous(discussion_log[i].messages) => ~Followed(i)
        /\ (~Unanimous(discussion_log[i].messages) /\ i < max_rounds) =>
               (Followed(i) \/ outcome = "AgentRunError")

\* C15: the previous rounds given to an agent that is asked for its message
\* of round k+1 are exactly the rounds 1..k of the log, each complete with a
\* message of every participant; no message of the round in progress is among
\* them.
C15_RoundBarrier ==
    prompt # <<>> =>
        LET given == prompt[1].previous_rounds
        IN  /\ Len(given) = prompt[1].round - 1
            /\ given = SubSeq(discussion_log, 1, prompt[1].round - 1)
            /\ \A i \in 1..Len(given) :
                   /\ given[i].round = i
                   /\ given[i].round < prompt[1].round
                   /\ Len(given[i].messages) = Len(participants)

\* C15 witness: the third participant has been asked for its message of round
\* 2 while the round held the messages of the two others.
C15_Witness ==
    /\ prompt # <<>>
    /\ prompt[1].round = 2
    /\ prompt[1].agent = participants[3]
    /\ Len(prompt[1].previous_rounds) = 1
    /\ Len(round_messages) = 3

\* ------------------------------------------------------------------------
\* Properties of the dispatch and of the run as a whole
\* ------------------------------------------------------------------------

\* The agent that produced the result stored under key k: tasks and
\* participants list the bank, the salary and the verification agent in the
\* same order.
AgentOf(k) ==
    participants[CHOOSE i \in 1..Len(AgentKeys) : AgentKeys[i] = k]

\* The analyzer under key k raised
Failed(k) == tasks[k] # <<>> /\ LacksResultAttributes(tasks[k][1])

\* agent has a message in the round in progress or in a logged round
HasMessage(agent) ==
    \/ \E i \in 1..Len(round_messages) : round_messages[i].agent = agent
    \/ \E r \in 1..Len(discussion_log) :
           \E i \in 1..Len(discussion_log[r].messages) :
               discussion_log[r].messages[i].agent = agent

\* C16 (as claimed): an analyzer whose dispatch result is a failure has no
\* message in any round and its agent is not run again.
C16_FailedAnalyzerStaysOut ==
    \A k \in AgentKeySet :
        Failed(k) =>
            /\ ~HasMessage(AgentOf(k))
            /\ prompt = <<>> \/ prompt[1].agent # AgentOf(k)

C18_DispatchReturns == <>(pc # "gather")

\* C19 (as claimed): whatever the analyzers did, process() ends by returning
\* a DecisionResult that is an approval, a rejection or a manual review.
C19_AlwaysOneDecision ==
    (pc = "done" /\ outcome # "AgentRunError") =>
        /\ outcome = "returned"
        /\ Decided
        /\ Decision.decision \in {"APPROVE", "REJECT", "MANUAL_REVIEW"}

\* ------------------------------------------------------------------------
\* Properties of POST /api/loan-application
\* ------------------------------------------------------------------------

\* The body is JSON and lacks the amount, the duration or the purpose of the
\* loan request
MissingLoanFields ==
    /\ "malformed" \notin DOMAIN body
    /\ \/ ~Truthy(body.loanAmount)
       \/ ~Truthy(body.loanDuration)
       \/ ~Truthy(body.loanPurpose)

\* C20 (as claimed): for an application that lacks a required loan-request
\* field no processing request is sent to the AI agent and the submission is
\* not accepted.
C20_MissingLoanFieldsRejected ==
    MissingLoanFields =>
        /\ agent_requests = <<>>
        /\ response # <<>> => response[1].status # 201

\* ------------------------------------------------------------------------
\* Properties of make_decision as a function
\* ------------------------------------------------------------------------

\* A DecisionResult without its timestamp
WithoutTimestamp(d) == [ f \in DOMAIN d \ {"timestamp"} |-> d[f] ]

Clamp(score) == IF score < 0 THEN 0 ELSE IF score > 100 THEN 100 ELSE score

\* C22 (as claimed): when make_decision returns a result for analysis results
\* with a risk_score outside 0..100, the out-of-range score has been clamped
\* before the aggregation, and the weighted risk score the decision is based
\* on lies within 0..100.
C22_ScoresInRange ==
    (final_decision # <<>> /\ NoOverride) =>
        /\ final_decision[1].risk_score \in 0..10000
        /\ final_decision[1].risk_score =
               35 * Clamp(analysis_results["bank_analysis"].risk_score)
                   + 30 * Clamp(analysis_results["salary_analysis"].risk_score)
                   + 20 * Clamp(analysis_results["verification"].risk_score)
                   + 15 * calculate_loan_risk(application.loan_request)

\* ------------------------------------------------------------------------
\* Properties of the deliberation log
\* ------------------------------------------------------------------------

\* s is an initial part of t
IsPrefix(s, t) == Len(s) <= Len(t) /\ SubSeq(t, 1, Len(s)) = s

\* The rounds of the log are numbered 1, 2, ... in the order they were
\* appended, and each holds a message of every participant.
LogOrdered ==
    \A i \in 1..Len(discussion_log) :
        /\ discussion_log[i].round = i
        /\ Len(discussion_log[i].messages) = Len(participants)

\* A step only appends: the log grows at its end by at most one round, which
\* is the completed round in progress; the messages of the round in progress
\* grow at the end or start afresh when the round is logged.
LogAppendOnly ==
    /\ IsPrefix(discussion_log, discussion_log')
    /\ Len(discussion_log') <= Len(discussion_log) + 1
    /\ discussion_log' # discussion_log =>
           /\ Len(round_messages) = Len(participants)
           /\ discussion_log'[Len(discussion_log')] =
                  [round |-> Len(discussion_log) + 1, messages |-> round_messages]
    /\ discussion_log' = discussion_log =>
           IsPrefix(round_messages, round_messages')

\* C23: the deliberation log is append-only and ordered by round: no logged
\* message is changed or removed, the round numbers are 1, 2, ... in append
\* order, and round k+1 is appended only after round k is complete in the log.
C23_LogAppendOnlyOrdered == []LogOrdered /\ [][LogAppendOnly]_vars

\* C23 witness: three rounds are in the log, in order.
C23_Witness ==
    /\ Len(discussion_log) = 3
    /\ discussion_log[1].round = 1
    /\ discussion_log[3].round = 3
    /\ discussion_log[1].messages # discussion_log[3].messages

\* ------------------------------------------------------------------------
\* Properties of the transaction, the agent call and the client of POST
\* ------------------------------------------------------------------------

\* The rows one submission with body b inserts
AllRows(b) ==
    { RowOf(InsertOrder[i], b) : i \in
        { j \in 1..Len(InsertOrder) :
            /\ InsertOrder[j] = "bank_statement" => Truthy(b.bankStatementUrl)
            /\ InsertOrder[j] = "salary_statement" => Truthy(b.salaryStatementUrl) } }

\* The handler has answered with the given status
Responded(status) == response # <<>> /\ response[1].status = status

C25_AgentFailureDoesNotFailRequest ==
    agent_requests # <<>> =>
        /\ Len(agent_requests) = 1
        /\ db.tx = "committed"
        /\ db.persisted = AllRows(body)
        /\ post_pc # "catch"
        /\ response # <<>> =>
               response[1] = [status |-> 201, customerId |-> customerId]

\* C25 witness: the agent could not be reached and the handler answered 201.
C25_Witness ==
    /\ agent_requests # <<>>
    /\ agent_requests[1].result = "unreachable"
    /\ Responded(201)
    /\ db.persisted # {}

\* C29: the client obtained from getClient is released exactly once on every
\* path of the handler, and no client is released when getClient failed.
C29_ClientReleasedOnce ==
    /\ client.released <= 1
    /\ client.released = 1 => client.acquired
    /\ post_pc = "done" =>
           /\ client.acquired => client.released = 1
           /\ ~client.acquired => (client.released = 0 /\ Responded(503))
           /\ response # <<>>
           /\ response[1].status \in {201, 400, 500, 503}

\* C29 witness: the ROLLBACK itself failed and the client has been released.
C29_Witness ==
    /\ post_pc = "done"
    /\ Responded(500)
    /\ response[1].error = "unhandled"
    /\ client.released = 1

\* ------------------------------------------------------------------------
\* Properties of the application form
\* ------------------------------------------------------------------------

\* the step in which the polling of a submission ends
PollEnds == poll.state = "scheduled" /\ poll'.state = "ended"

C26_StatusChecksBounded == poll.attempts <= maxAttempts

\* while the result screen of the submission is shown, a finished polling
\* has left a decision and switched the spinner off
C26_DecisionHeld ==
    poll.state = "ended" /\ isSubmitted
        => aiDecision # <<>> /\ ~isLoadingDecision

\* the decision is the one fetched for the submission's customer, or the
\* MANUAL_REVIEW fallback of the form
C26_EndsWithDecision ==
    PollEnds =>
        /\ aiDecision' # <<>>
        /\ isLoadingDecision' = FALSE
        /\ aiDecision'[1] \in AgentDecisions(poll.custId) \cup Fallbacks
        /\ (poll'.attempts = poll.attempts
              => aiDecision'[1] =
                   Fallback("Processing timeout - manual review required"))

\* C26: after a successful submission the polling always ends: after at
\* most 30 status checks the form holds a non-null decision and
\* isLoadingDecision is false, the decision being the one fetched from the
\* AI agent or a MANUAL_REVIEW fallback, whatever the agent answers.
C26_PollingEnds ==
    /\ []C26_StatusChecksBounded
    /\ []C26_DecisionHeld
    /\ [][C26_EndsWithDecision]_vars
    /\ (poll.state = "scheduled" ~> poll.state = "ended")

\* the agent answered "pending" (or failed to answer) 30 times: the 31st
\* call of poll() gives up
C26_Witness ==
    /\ poll.state = "ended"
    /\ poll.attempts = maxAttempts
    /\ isSubmitted
    /\ aiDecision = <<Fallback("Processing timeout - manual review required")>>
    /\ ~isLoadingDecision

BodiesCarryUrls ==
    \A i \in 1..Len(submitted) :
        /\ submitted[i].bankStatementUrl = <<fileUrl("bank")>>
        /\ submitted[i].salaryStatementUrl = <<fileUrl("salary")>>

\* no request is sent while an upload is in flight or with a file name
\* cleared by a failed upload
SubmitsOnlyAfterUploads ==
    Len(submitted') > Len(submitted) =>
        /\ uploads = {}
        /\ data.bankStatementName # <<>>
        /\ data.salaryStatementName # <<>>

\* C28: whenever an application passes step-5 validation and is submitted,
\* both uploads have completed successfully: the body carries the
\* bankStatementUrl and salaryStatementUrl returned by the upload endpoint,
\* and no submission happens while an upload is in flight or after one
\* failed.
C28_SubmittedAfterUploads ==
    []BodiesCarryUrls /\ [][SubmitsOnlyAfterUploads]_vars

\* ------------------------------------------------------------------------
\* Properties of GET /api/health
\* ------------------------------------------------------------------------

\* the connectivity check of a configured service failed
ConfiguredServiceFailed ==
    \/ checks.database.configured /\ includes(checks.database.status, "cross")
    \/ checks.storage.configured /\ includes(checks.storage.status, "cross")

\* C30: if the connectivity check of a configured service fails, GET
\* /api/health reports an overall status with the failure mark and answers
\* 503; it answers 200 only when no configured service failed its check.
C30_FailedCheckGives503 ==
    health_response # <<>> =>
        /\ ConfiguredServiceFailed =>
              /\ includes(health_response[1].body.status, "cross")
              /\ health_response[1].status = 503
        /\ health_response[1].status = 200 => ~ConfiguredServiceFailed

====
